---- MODULE Spec2Model ----
(***************************************************************************)
(* Model of src/main.rs: the maze read from a text file, the depth-first   *)
(* search solve_maze with construct_path, and the exporter                 *)
(* create_json_file, run in the order main runs them.                      *)
(* Positions are (row, col) pairs counted from 0 as in the source; the     *)
(* sequences of TLA+ count from 1, so data[r][c] of the source is          *)
(* data[r + 1][c + 1] here.                                                *)
(***************************************************************************)
EXTENDS Integers, Sequences, FiniteSets

VARIABLES
    data,        \* Maze.data: the rows, each a sequence of characters
    rows,        \* Maze.rows
    cols,        \* Maze.cols
    pc,          \* where main is
    visited,     \* solve_maze: HashSet of positions
    stack,       \* solve_maze: VecDeque used as a stack (back = top)
    parents,     \* solve_maze: HashMap position -> position
    path,        \* the route solve_maze returned (<<>> while there is none)
    maze_cells,  \* create_json_file: the collected Cell entries
    doc,         \* create_json_file: the MazeJson value
    file,        \* the output document: "absent", "created" or "written"
    pushed,      \* history: every push_back of solve_maze, in order
    popped,      \* history: every pop_back of solve_maze, in order
    accessed     \* history: every index pair solve_maze used on data

vars == <<data, rows, cols, pc, visited, stack, parents, path, maze_cells,
          doc, file, pushed, popped, accessed>>

(***************************************************************************)
(* Bounds of the input files.                                              *)
(***************************************************************************)
MaxRows == 3
MaxCols == 3
\* Files of lines of one length: at most MaxCells characters, of which at
\* most MaxMarks are not '.'.
MaxCells == 6
MaxMarks == 4
\* The wider files, which have room for a cell with four neighbours.
MaxWideCells == 9
MaxWideMarks == 2

\* The four legal symbols and one symbol outside them.
Symbols == {"S", "G", ".", "#", "x"}
MarkSymbols == Symbols \ {"."}

(***************************************************************************)
(* The input files: sequences of lines.                                    *)
(***************************************************************************)
\* A file of r lines of c characters, '.' everywhere but on the marked cells.
GridFile(r, c, M, f) ==
    [i \in 1..r |-> [j \in 1..c |-> IF <<i, j>> \in M THEN f[<<i, j>>] ELSE "."]]

\* A file whose line i has len[i] characters.
RaggedFile(len, M, f) ==
    [i \in 1..Len(len) |->
        [j \in 1..len[i] |-> IF <<i, j>> \in M THEN f[<<i, j>>] ELSE "."]]

Shapes(maxCells) == {s \in (0..MaxRows) \X (0..MaxCols) :
                        /\ s[1] * s[2] <= maxCells
                        /\ (s[1] = 0 => s[2] = 0)}

MarkSets(cells, maxMarks) == {M \in SUBSET cells : Cardinality(M) <= maxMarks}

RECURSIVE Sum(_, _)
Sum(len, i) == IF i > Len(len) THEN 0 ELSE len[i] + Sum(len, i + 1)

\* Line lengths of the files whose lines differ in length.
RaggedShapes ==
    UNION {{len \in [1..r -> 0..MaxCols] :
                /\ \E i, j \in 1..r : len[i] # len[j]
                /\ Sum(len, 1) <= MaxCells} : r \in 2..MaxRows}

RaggedCells(len) == {<<i, j>> \in (1..Len(len)) \X (1..MaxCols) : j <= len[i]}

(***************************************************************************)
(* read_maze_from_file                                                     *)
(***************************************************************************)
RECURSIVE ReadLines(_, _, _)
\* The loop over reader.lines(): cols is overwritten by every line.
ReadLines(lines, i, m) ==
    IF i > Len(lines) THEN m
    ELSE ReadLines(lines, i + 1,
                   [rows |-> m.rows + 1,
                    cols |-> Len(lines[i]),
                    data |-> Append(m.data, lines[i])])

read_maze_from_file(lines) ==
    ReadLines(lines, 1, [rows |-> 0, cols |-> 0, data |-> <<>>])

(***************************************************************************)
(* find_start and the goal scan of create_json_file                        *)
(***************************************************************************)
NoPos == <<-1, -1>>

\* Positions of d holding symbol ch, as (row, col) from 0.
CellsWith(d, ch) ==
    {p \in UNION {{<<r - 1, c - 1>> : c \in 1..Len(d[r])} : r \in 1..Len(d)} :
        d[p[1] + 1][p[2] + 1] = ch}

\* The first position in row-major order among a non-empty set of positions.
FirstRowMajor(ps) ==
    CHOOSE p \in ps : \A q \in ps : p[1] < q[1] \/ (p[1] = q[1] /\ p[2] <= q[2])

find_start(d) ==
    IF CellsWith(d, "S") = {} THEN NoPos ELSE FirstRowMajor(CellsWith(d, "S"))

\* find_map over the rows of row.iter().position(c == 'G'): (row, col) here,
\* the source's pair is (x, y) = (col, row).
find_goal(d) ==
    IF CellsWith(d, "G") = {} THEN NoPos ELSE FirstRowMajor(CellsWith(d, "G"))

(***************************************************************************)
(* solve_maze                                                              *)
(***************************************************************************)
\* Variant: the neighbours generated right, left, down, up.
DirectionsRightFirst == << <<0, 1>>, <<0, -1>>, <<1, 0>>, <<-1, 0>> >>

\* The array of the for loop: up, down, left, right.
Directions == << <<-1, 0>>, <<1, 0>>, <<0, -1>>, <<0, 1>> >>

\* Variant: the column compared with <= instead of <.
InBoundsColOffByOne(nr, nc, rws, cls) == nr >= 0 /\ nr < rws /\ nc >= 0 /\ nc <= cls

\* The four comparisons against maze.rows and maze.cols.
InBounds(nr, nc, rws, cls) == nr >= 0 /\ nr < rws /\ nc >= 0 /\ nc < cls

\* Whether the index pair exists in data (the Vec index check of Rust).
IndexOk(d, r, c) == r >= 0 /\ r < Len(d) /\ c >= 0 /\ c < Len(d[r + 1])

\* Variant: the wall test left out.
EligibleIgnoringWalls(d, vis, nr, nc) == <<nr, nc>> \notin vis

\* Variant: the visited test left out.
EligibleIgnoringVisited(d, vis, nr, nc) == d[nr + 1][nc + 1] # "#"

\* The last two conjuncts of the if: not a wall, not visited.
Eligible(d, vis, nr, nc) == d[nr + 1][nc + 1] # "#" /\ <<nr, nc>> \notin vis

\* Variant: pop_front, which makes the frontier a queue.
PopFrontIndex(stk) == 1

\* stack.pop_back()
PopIndex(stk) == Len(stk)

RemoveAt(s, i) == SubSeq(s, 1, i - 1) \o SubSeq(s, i + 1, Len(s))

\* parents.insert(k, v)
MapInsert(m, k, v) == [p \in DOMAIN m \cup {k} |-> IF p = k THEN v ELSE m[p]]

EmptyMap == [p \in {} |-> NoPos]

\* One pass of the body of the for loop, for direction dir, on the search
\* state s; s.fault is set when the index into data is out of range.
ExpandDir(d, rws, cls, pos, dir, s) ==
    LET nr == pos[1] + dir[1]
        nc == pos[2] + dir[2]
    IN  IF ~InBounds(nr, nc, rws, cls) THEN s
        ELSE IF ~IndexOk(d, nr, nc)
             THEN [s EXCEPT !.fault = TRUE, !.accessed = @ \cup {<<nr, nc>>}]
        ELSE IF Eligible(d, s.visited, nr, nc)
             THEN [s EXCEPT !.stack = Append(@, <<nr, nc>>),
                            !.visited = @ \cup {<<nr, nc>>},
                            !.parents = MapInsert(@, <<nr, nc>>, pos),
                            !.pushed = Append(@, <<nr, nc>>),
                            !.accessed = @ \cup {<<nr, nc>>}]
        ELSE [s EXCEPT !.accessed = @ \cup {<<nr, nc>>}]

RECURSIVE Expand(_, _, _, _, _, _)
\* The for loop over the four directions; a panic ends it.
Expand(d, rws, cls, pos, i, s) ==
    IF i > Len(Directions) \/ s.fault THEN s
    ELSE Expand(d, rws, cls, pos, i + 1,
                ExpandDir(d, rws, cls, pos, Directions[i], s))

(***************************************************************************)
(* construct_path                                                          *)
(***************************************************************************)
Reverse(s) == [i \in 1..Len(s) |-> s[Len(s) + 1 - i]]

RECURSIVE WalkBack(_, _, _)
\* The while let loop and the push after it.
WalkBack(current, par, acc) ==
    IF current \in DOMAIN par
    THEN WalkBack(par[current], par, Append(acc, current))
    ELSE Append(acc, current)

construct_path(goal, par) == Reverse(WalkBack(goal, par, <<>>))

(***************************************************************************)
(* create_json_file                                                        *)
(***************************************************************************)
Unknown == 255

\* Variant: the fallback arm classifies instead of panicking.
cell_type_fallback_wall(ch) ==
    CASE ch = "S" -> 0
      [] ch = "G" -> 1
      [] ch = "." -> 2
      [] OTHER -> 3

\* The match on the cell symbol; Unknown stands for the panic arm.
cell_type(ch) ==
    CASE ch = "S" -> 0
      [] ch = "G" -> 1
      [] ch = "." -> 2
      [] ch = "#" -> 3
      [] OTHER -> Unknown

RECURSIVE FlattenRows(_, _)
FlattenRows(d, y) ==
    IF y > Len(d) THEN <<>>
    ELSE [x \in 1..Len(d[y]) |->
             [x |-> x - 1, y |-> y - 1, cell_type |-> cell_type(d[y][x])]]
         \o FlattenRows(d, y + 1)

\* The flat_map over rows and cells, in row-major order.
ClassifyAll(d) == FlattenRows(d, 1)

\* solution.iter().map(|&(y, x)| Position { x, y })
solution_cells(solution) ==
    [i \in 1..Len(solution) |-> [x |-> solution[i][2], y |-> solution[i][1]]]

NoDoc == [width |-> 0, height |-> 0, start |-> [x |-> 0, y |-> 0],
          goal |-> [x |-> 0, y |-> 0], maze |-> <<>>, solution |-> <<>>]

\* Variant: the goal pair read as (row, col).
BuildDocGoalSwapped(width, height, start, goalXY, cells, solution) ==
    [width |-> width, height |-> height,
     start |-> [x |-> start[2], y |-> start[1]],
     goal |-> [x |-> goalXY[2], y |-> goalXY[1]],
     maze |-> cells,
     solution |-> solution_cells(solution)]

\* The MazeJson literal: start is (row, col) from find_start, goal is the
\* (x, y) pair of the goal scan.
BuildDoc(width, height, start, goalXY, cells, solution) ==
    [width |-> width, height |-> height,
     start |-> [x |-> start[2], y |-> start[1]],
     goal |-> [x |-> goalXY[1], y |-> goalXY[2]],
     maze |-> cells,
     solution |-> solution_cells(solution)]

(***************************************************************************)
(* main                                                                    *)
(***************************************************************************)
\* Variant: the exporter is called whatever solve_maze returned.
main_always_exports(found) == "export"

\* The if let on the result of solve_maze: create_json_file on Some, the
\* message "No path found." on None.
main_on_result(found) == IF found THEN "export" ELSE "no_path"

(***************************************************************************)
(* Initial states: main has read the file.                                 *)
(***************************************************************************)
InitWith(lines) ==
    LET m == read_maze_from_file(lines)
    IN  /\ data = m.data
        /\ rows = m.rows
        /\ cols = m.cols
        /\ pc = "solve"
        /\ visited = {}
        /\ stack = <<>>
        /\ parents = EmptyMap
        /\ path = <<>>
        /\ maze_cells = <<>>
        /\ doc = NoDoc
        /\ file = "absent"
        /\ pushed = <<>>
        /\ popped = <<>>
        /\ accessed = {}

\* Files whose lines have one length.
Init ==
    \E s \in Shapes(MaxCells) :
      \E M \in MarkSets((1..s[1]) \X (1..s[2]), MaxMarks) :
        \E f \in [M -> MarkSymbols] :
          InitWith(GridFile(s[1], s[2], M, f))

\* Wider files whose lines have one length, with fewer marked cells.
InitWide ==
    \E s \in Shapes(MaxWideCells) :
      \E M \in MarkSets((1..s[1]) \X (1..s[2]), MaxWideMarks) :
        \E f \in [M -> MarkSymbols] :
          InitWith(GridFile(s[1], s[2], M, f))

\* Files whose lines differ in length.
InitRagged ==
    \E len \in RaggedShapes :
      \E M \in MarkSets(RaggedCells(len), MaxMarks) :
        \E f \in [M -> MarkSymbols] :
          InitWith(RaggedFile(len, M, f))

(***************************************************************************)
(* Actions                                                                 *)
(***************************************************************************)
\* solve_maze up to the loop: find_start, push_back, insert.
SolveStart ==
    /\ pc = "solve"
    /\ LET start == find_start(data)
       IN  IF start = NoPos
           THEN /\ pc' = "panic_no_start"
                /\ UNCHANGED <<visited, stack, pushed>>
           ELSE /\ stack' = <<start>>
                /\ visited' = {start}
                /\ pushed' = <<start>>
                /\ pc' = "search"
    /\ UNCHANGED <<data, rows, cols, parents, path, maze_cells, doc, file,
                   popped, accessed>>

\* One iteration of the while let loop, or its end with None.
SearchStep ==
    /\ pc = "search"
    /\ IF stack = <<>>
       THEN /\ pc' = main_on_result(FALSE)
            /\ UNCHANGED <<visited, stack, parents, path, pushed, popped,
                           accessed>>
       ELSE LET pos == stack[PopIndex(stack)]
                rest == RemoveAt(stack, PopIndex(stack))
            IN  /\ popped' = Append(popped, pos)
                /\ IF data[pos[1] + 1][pos[2] + 1] = "G"
                   THEN /\ path' = construct_path(pos, parents)
                        /\ stack' = rest
                        /\ accessed' = accessed \cup {pos}
                        /\ pc' = main_on_result(TRUE)
                        /\ UNCHANGED <<visited, parents, pushed>>
                   ELSE LET s == Expand(data, rows, cols, pos, 1,
                                        [stack |-> rest, visited |-> visited,
                                         parents |-> parents, pushed |-> pushed,
                                         accessed |-> accessed \cup {pos},
                                         fault |-> FALSE])
                        IN  /\ stack' = s.stack
                            /\ visited' = s.visited
                            /\ parents' = s.parents
                            /\ pushed' = s.pushed
                            /\ accessed' = s.accessed
                            /\ pc' = IF s.fault THEN "panic_index" ELSE "search"
                            /\ path' = path
    /\ UNCHANGED <<data, rows, cols, maze_cells, doc, file>>

\* create_json_file: the collect of maze_cells, or the panic of the match.
Classify ==
    /\ pc = "export"
    /\ LET cells == ClassifyAll(data)
       IN  IF \E i \in 1..Len(cells) : cells[i].cell_type = Unknown
           THEN /\ pc' = "panic_unknown"
                /\ maze_cells' = maze_cells
           ELSE /\ pc' = "classified"
                /\ maze_cells' = cells
    /\ UNCHANGED <<data, rows, cols, visited, stack, parents, path, doc, file,
                   pushed, popped, accessed>>

\* create_json_file: solution_cells, find_start, the goal scan with its
\* unwrap, the MazeJson value and its serialisation.
Locate ==
    /\ pc = "classified"
    /\ LET start == find_start(data)
           goal == find_goal(data)
       IN  IF start = NoPos THEN pc' = "panic_no_start" /\ doc' = doc
           ELSE IF goal = NoPos THEN pc' = "panic_unwrap" /\ doc' = doc
           ELSE /\ doc' = BuildDoc(cols, rows, start, <<goal[2], goal[1]>>,
                                   maze_cells, path)
                /\ pc' = "create"
    /\ UNCHANGED <<data, rows, cols, visited, stack, parents, path, maze_cells,
                   file, pushed, popped, accessed>>

\* File::create, which may fail.
CreateFile ==
    /\ pc = "create"
    /\ \E ok \in BOOLEAN :
         IF ok THEN file' = "created" /\ pc' = "write"
         ELSE file' = file /\ pc' = "io_error"
    /\ UNCHANGED <<data, rows, cols, visited, stack, parents, path, maze_cells,
                   doc, pushed, popped, accessed>>

\* write_all, which may fail.
WriteAll ==
    /\ pc = "write"
    /\ \E ok \in BOOLEAN :
         IF ok THEN file' = "written" /\ pc' = "done"
         ELSE file' = file /\ pc' = "io_error"
    /\ UNCHANGED <<data, rows, cols, visited, stack, parents, path, maze_cells,
                   doc, pushed, popped, accessed>>

Next ==
    \/ SolveStart
    \/ SearchStep
    \/ Classify
    \/ Locate
    \/ CreateFile
    \/ WriteAll

Spec == Init /\ [][Next]_vars

SpecWide == InitWide /\ [][Next]_vars

SpecRagged == InitRagged /\ [][Next]_vars

(***************************************************************************)
(* Vocabulary of the properties                                            *)
(***************************************************************************)
AllCells(d) ==
    UNION {{<<r - 1, c - 1>> : c \in 1..Len(d[r])} : r \in 1..Len(d)}

SymbolAt(d, p) == d[p[1] + 1][p[2] + 1]

Rectangular(d) == \A i, j \in 1..Len(d) : Len(d[i]) = Len(d[j])

Abs(n) == IF n < 0 THEN -n ELSE n

\* The two positions differ by exactly 1 in exactly one of row and column.
GridAdjacent(p, q) ==
    \/ (Abs(p[1] - q[1]) = 1 /\ p[2] = q[2])
    \/ (p[1] = q[1] /\ Abs(p[2] - q[2]) = 1)

OpenNeighbours(d, p) ==
    {q \in AllCells(d) : GridAdjacent(p, q) /\ SymbolAt(d, q) # "#"}

RECURSIVE Grow(_, _)
Grow(d, ps) ==
    LET more == ps \cup UNION {OpenNeighbours(d, p) : p \in ps}
    IN  IF more = ps THEN ps ELSE Grow(d, more)

\* The positions a sequence of grid-adjacent non-wall cells connects to p.
ReachableFrom(d, p) == Grow(d, {p})

RECURSIVE BfsLen(_, _, _, _)
BfsLen(d, frontier, seen, n) ==
    IF frontier \cap CellsWith(d, "G") # {} THEN n
    ELSE IF frontier = {} THEN 0
    ELSE LET next == UNION {OpenNeighbours(d, p) : p \in frontier} \ seen
         IN  BfsLen(d, next, seen \cup next, n + 1)

\* The number of positions of a shortest route from Start to a Goal (0: none).
ShortestRouteLen(d) ==
    IF find_start(d) = NoPos THEN 0
    ELSE BfsLen(d, {find_start(d)}, {find_start(d)}, 1)

Elems(s) == {s[i] : i \in 1..Len(s)}

NoRepeat(s) == \A i, j \in 1..Len(s) : s[i] = s[j] => i = j

IndexOf(s, e) == IF e \in Elems(s) THEN CHOOSE i \in 1..Len(s) : s[i] = e ELSE 0

SearchEnded == pc \notin {"solve", "search"}

RouteReturned == pc \in {"export", "classified", "create", "write", "done",
                         "io_error", "panic_unknown", "panic_unwrap"}

DocBuilt == pc \in {"create", "write", "done", "io_error"}

HasOther(d) == \E p \in AllCells(d) : SymbolAt(d, p) \notin {"S", "G", ".", "#"}

UniqueStartGoalWithPath ==
    /\ Rectangular(data)
    /\ Cardinality(CellsWith(data, "S")) = 1
    /\ Cardinality(CellsWith(data, "G")) = 1
    /\ CellsWith(data, "G") \subseteq ReachableFrom(data, find_start(data))

\* The route is one from Start to Goal by grid-adjacent steps over non-wall
\* cells, without repetition.
RouteIsValid ==
    /\ Len(path) >= 1
    /\ path[1] = find_start(data)
    /\ {path[Len(path)]} = CellsWith(data, "G")
    /\ \A i \in 1..(Len(path) - 1) : GridAdjacent(path[i], path[i + 1])
    /\ NoRepeat(path)
    /\ \A i \in 1..Len(path) : path[i] \in AllCells(data) /\ SymbolAt(data, path[i]) # "#"

\* C1: for a rectangular maze with exactly one 'S', exactly one 'G' and a
\* wall-free path between them, solve_maze returns a route (not None, no
\* panic) that is non-empty, starts at Start, ends at Goal, moves by
\* grid-adjacent steps, repeats no position and contains no wall.
C1_RouteFromStartToGoal ==
    \/ ~SearchEnded
    \/ ~UniqueStartGoalWithPath
    \/ (RouteReturned /\ RouteIsValid)

C1_Witness ==
    /\ pc = "export"
    /\ UniqueStartGoalWithPath
    /\ Len(path) >= 4
    /\ CellsWith(data, "#") # {}

NoGoalReachable ==
    /\ Rectangular(data)
    /\ find_start(data) # NoPos
    /\ ReachableFrom(data, find_start(data)) \cap CellsWith(data, "G") = {}

\* C2: for a rectangular maze with a Start from which no 'G' can be reached
\* over grid-adjacent non-wall cells (also when there is no 'G'), solve_maze
\* ends with None and the frontier empty, having popped exactly the
\* reachable cells; it returns no route and does not panic.
C2_NoRouteWhenGoalUnreachable ==
    \/ ~SearchEnded
    \/ ~NoGoalReachable
    \/ /\ pc = "no_path"
       /\ stack = <<>>
       /\ path = <<>>
       /\ NoRepeat(popped)
       /\ Elems(popped) = ReachableFrom(data, find_start(data))

C2_Witness ==
    /\ pc = "no_path"
    /\ NoGoalReachable
    /\ CellsWith(data, "G") # {}
    /\ Len(popped) >= 2

\* The origin of the search is never a Goal cell: a cell holds one symbol.
StartIsNeverGoal ==
    pc # "solve" /\ find_start(data) # NoPos => SymbolAt(data, find_start(data)) # "G"

Decode(code) ==
    CASE code = 0 -> "S"
      [] code = 1 -> "G"
      [] code = 2 -> "."
      [] code = 3 -> "#"
      [] OTHER -> "?"

\* C4: the classification maps 'S' to 0, 'G' to 1, '.' to 2, '#' to 3, is
\* injective on them, the collected codes are one per cell in row-major
\* order and decode to the grid, and with any other symbol in the grid
\* create_json_file panics with no cell entry collected and no file.
C4_ClassificationAndFault ==
    /\ cell_type("S") = 0 /\ cell_type("G") = 1
    /\ cell_type(".") = 2 /\ cell_type("#") = 3
    /\ \A a, b \in {"S", "G", ".", "#"} : cell_type(a) = cell_type(b) => a = b
    /\ pc \in {"classified", "create", "write", "done", "io_error", "panic_unwrap"} =>
         /\ ~HasOther(data)
         /\ Len(maze_cells) = Cardinality(AllCells(data))
         /\ \A i \in 1..Len(maze_cells) :
              /\ <<maze_cells[i].y, maze_cells[i].x>> \in AllCells(data)
              /\ Decode(maze_cells[i].cell_type) =
                   SymbolAt(data, <<maze_cells[i].y, maze_cells[i].x>>)
         /\ \A i, j \in 1..Len(maze_cells) :
              i < j => \/ maze_cells[i].y < maze_cells[j].y
                       \/ /\ maze_cells[i].y = maze_cells[j].y
                          /\ maze_cells[i].x < maze_cells[j].x
    /\ pc = "panic_unknown" => HasOther(data) /\ maze_cells = <<>> /\ file = "absent"

C4_Witness ==
    /\ pc = "panic_unknown"
    /\ HasOther(data)
    /\ SymbolAt(data, <<0, 0>>) \in {"S", "G", ".", "#"}
    /\ path # <<>>

\* C5 as stated: whenever a route is exported, the document's start equals
\* the first solution entry and its goal equals the last.
C5_EndpointsAgree ==
    DocBuilt =>
        /\ doc.start = doc.solution[1]
        /\ doc.goal = doc.solution[Len(doc.solution)]

\* C5 amended: the start always equals the first solution entry; the goal
\* equals the last solution entry when the maze has exactly one 'G'; all in
\* x = column, y = row.
C5_EndpointsAgreeUniqueGoal ==
    DocBuilt =>
        /\ Len(doc.solution) = Len(path)
        /\ \A i \in 1..Len(path) :
             doc.solution[i] = [x |-> path[i][2], y |-> path[i][1]]
        /\ doc.start = doc.solution[1]
        /\ <<doc.start.y, doc.start.x>> \in CellsWith(data, "S")
        /\ <<doc.goal.y, doc.goal.x>> \in CellsWith(data, "G")
        /\ (Cardinality(CellsWith(data, "G")) = 1 =>
               doc.goal = doc.solution[Len(doc.solution)])

C5_Witness ==
    /\ DocBuilt
    /\ Cardinality(CellsWith(data, "G")) = 1
    /\ doc.goal.x # doc.goal.y
    /\ doc.start.x # doc.start.y
    /\ Len(doc.solution) >= 3

\* C6: the output document exists only after the search returned a route,
\* every cell was classified and Start and Goal were located; a run with no
\* 'S', with a symbol outside the four, with a panic or with no route never
\* creates it.
C6_FileOnlyAfterRouteAndClassification ==
    /\ file # "absent" =>
         /\ pc \in {"write", "done", "io_error"}
         /\ path # <<>>
         /\ maze_cells = ClassifyAll(data)
         /\ ~HasOther(data)
         /\ doc # NoDoc
         /\ doc.maze = maze_cells
    /\ (\/ pc \in {"panic_no_start", "panic_unknown", "panic_index",
                   "panic_unwrap", "no_path"}
        \/ CellsWith(data, "S") = {}
        \/ HasOther(data)) => file = "absent"

C6_Witness == file = "written" /\ pc = "done" /\ Len(path) >= 2

\* Three rows of two open cells, Start above Goal in the first column.
DetourMaze == << <<"S", ".">>, <<".", ".">>, <<"G", ".">> >>

\* C7: there is a maze with one Start and one Goal whose returned route is
\* strictly longer than the shortest route: DetourMaze is one (a returned
\* route is never shorter than the shortest).
C7_RouteNotShortest ==
    RouteReturned =>
        /\ Len(path) >= ShortestRouteLen(data)
        /\ data = DetourMaze => Len(path) > ShortestRouteLen(data)

C7_Witness ==
    /\ pc = "export"
    /\ data = DetourMaze
    /\ UniqueStartGoalWithPath
    /\ Len(path) = 5
    /\ ShortestRouteLen(data) = 3

Up(p) == <<p[1] - 1, p[2]>>
Down(p) == <<p[1] + 1, p[2]>>
Left(p) == <<p[1], p[2] - 1>>
Right(p) == <<p[1], p[2] + 1>>

\* All four neighbours of p were pushed by the expansion of p.
BranchedFour(p) ==
    \A q \in {Up(p), Down(p), Left(p), Right(p)} :
        q \in DOMAIN parents /\ parents[q] = p

PoppedBefore(a, b) ==
    b \in Elems(popped) => a \in Elems(popped) /\ IndexOf(popped, a) < IndexOf(popped, b)

\* C8: when the expansion of a popped position pushed all four neighbours,
\* they were pushed in the order up, down, left, right, the right one is the
\* next position popped, and they are popped right, left, down, up; all four
\* are popped when the search ends with None.
C8_BranchOrder ==
    \A k \in 1..Len(popped) :
        LET p == popped[k]
        IN  BranchedFour(p) =>
              /\ \E i \in 1..(Len(pushed) - 3) :
                   SubSeq(pushed, i, i + 3) = <<Up(p), Down(p), Left(p), Right(p)>>
              /\ Len(popped) = k => stack # <<>> /\ stack[Len(stack)] = Right(p)
              /\ Len(popped) > k => popped[k + 1] = Right(p)
              /\ PoppedBefore(Right(p), Left(p))
              /\ PoppedBefore(Left(p), Down(p))
              /\ PoppedBefore(Down(p), Up(p))
              /\ pc = "no_path" =>
                   {Up(p), Down(p), Left(p), Right(p)} \subseteq Elems(popped)

C8_Witness ==
    \E k \in 1..Len(popped) :
        LET p == popped[k]
        IN  /\ BranchedFour(p)
            /\ {Up(p), Down(p), Left(p), Right(p)} \subseteq Elems(popped)
            /\ IndexOf(popped, Left(p)) > k + 2
            /\ IndexOf(popped, Up(p)) > IndexOf(popped, Down(p))

RECURSIVE ChainReaches(_, _, _)
\* The predecessor chain of p reaches origin within n steps.
ChainReaches(p, origin, n) ==
    IF p = origin THEN TRUE
    ELSE IF n = 0 \/ p \notin DOMAIN parents THEN FALSE
    ELSE ChainReaches(parents[p], origin, n - 1)

\* C9: at every step the frontier is inside the visited set and free of
\* duplicates, no position was pushed twice, and the predecessor map is
\* defined on exactly the visited positions but the origin, each entry a
\* grid-adjacent, non-wall, visited position whose chain reaches the origin.
C9_SearchInvariant ==
    /\ Elems(stack) \subseteq visited
    /\ NoRepeat(stack)
    /\ NoRepeat(pushed)
    /\ Elems(pushed) = visited
    /\ DOMAIN parents = visited \ {find_start(data)}
    /\ \A p \in DOMAIN parents :
         /\ GridAdjacent(p, parents[p])
         /\ parents[p] \in visited
         /\ SymbolAt(data, parents[p]) # "#"
         /\ ChainReaches(p, find_start(data), Cardinality(visited))

C9_Witness ==
    /\ pc = "search"
    /\ Len(stack) >= 3
    /\ Cardinality(visited) >= 6
    /\ \E p \in DOMAIN parents : parents[p] # find_start(data)

\* C10: every index pair solve_maze uses on data exists in data, for every
\* maze read_maze_from_file can produce, and the search never panics on an
\* index.
C10_AccessesInsideGrid ==
    /\ \A a \in accessed : IndexOk(data, a[1], a[2])
    /\ pc # "panic_index"

====
